---- MODULE Spec2Model ----
(***************************************************************************)
(* Model of the DNS resolver (package dns_resolver, built on miekg/dns).   *)
(*                                                                         *)
(* State: the DnsResolver struct (Servers, RetryTimes, ReuseConnection,    *)
(* r, conns), the caller's server slice that New aliases, the UDP sockets  *)
(* opened by getConnection, and for each calling goroutine the position    *)
(* and local variables of its LookupHost / LookupHostFull call.            *)
(*                                                                         *)
(* Strings are sequences of tokens, so that "+= :53" is a concatenation    *)
(* and strings.HasSuffix is a test on the last token.  The nil error is    *)
(* the empty string <<>>; a *dns.Msg is <<>> (nil) or <<m>>.               *)
(***************************************************************************)
EXTENDS Integers, Sequences, FiniteSets, TLC

(* ------------------------------ bounds --------------------------------- *)

\* longest server list handed to New
MaxServers == 2

\* largest value a caller assigns to the RetryTimes field
MaxRetry == 1

\* longest answer section of a response
MaxAnswer == 3

\* number of lookups called on the resolver
MaxLookups == 2

(* --------------------------- data domains ------------------------------ *)

Entries1 == <<"1.2.3.4">>

\* server entries a caller may pass: without a port, and with one
Entries == { <<"1.2.3.4">>, <<"1.2.3.4", ":5353">> }

ServerLists == UNION { [1..n -> Entries] : n \in 0..MaxServers }

\* nameserver lines of a resolv.conf file carry no port
ParsedLists == UNION { [1..n -> {<<"1.2.3.4">>}] : n \in 0..MaxServers }

\* goroutines that may call the resolver
TIDs == {1, 2}

NoErr == <<>>

NilMsg == <<>>

\* errors the transport (net / miekg/dns) reports
ErrDialTimeout == <<"dial udp", "i/o timeout">>

ErrDialUnreachable == <<"dial udp", "network is unreachable">>

ErrWriteRefused == <<"write udp", "connection refused">>

ErrReadTimeout == <<"read udp", "i/o timeout">>

ErrReadRefused == <<"read udp", "connection refused">>

DialErrs == {ErrDialTimeout, ErrDialUnreachable}

WriteErrs == {ErrWriteRefused}

ReadErrs == {ErrReadTimeout, ErrReadRefused}

\* dns.Exchange dials, writes and reads: any of their errors
ExchangeErrs == DialErrs \cup WriteErrs \cup ReadErrs

\* response codes of dns.RcodeToString used by the model
RcodeSuccess == "NOERROR"

Rcodes == {RcodeSuccess, "NXDOMAIN", "SERVFAIL"}

\* dns.RcodeToString: the symbolic name of a response code
RcodeToString(rc) == <<"rcode", rc>>

\* resource records of an answer section: *dns.A, *dns.CNAME, anything else
RR(type, a, target) == [type |-> type, A |-> a, Target |-> target]

Records ==
    { RR("A", "10.0.0.1", ""), RR("A", "10.0.0.2", ""),
      RR("CNAME", "", "alias.example.com."), RR("TXT", "", "") }

\* answer sections: record sets in some order, no record twice
Answers ==
    { a \in UNION { [1..n -> Records] : n \in 0..MaxAnswer } :
        \A i, j \in 1..Len(a) : a[i] = a[j] => i = j }

\* the answer sections of a zone that holds one address, or nothing
PlainAnswers == { <<>>, <<RR("A", "10.0.0.1", "")>> }


\* a response message: the query it answers, its response code, its answers
Msg(q, rc, ans) == [q |-> q, Rcode |-> rc, Answer |-> ans]

\* what a lookup hands back to its caller
NoReturn == [kind |-> "none", result |-> <<>>, resultCname |-> <<>>, err |-> NoErr]

Returned(res, cn, e) ==
    [kind |-> "returned", result |-> res, resultCname |-> cn, err |-> e]

\* a run-time panic unwinding out of the lookup (nil dereference, Intn(0))
Panicked == [kind |-> "panic", result |-> <<>>, resultCname |-> <<>>, err |-> NoErr]

\* the value performWithRetry returns
NoResult == [msg |-> NilMsg, err |-> NoErr]

\* what the transport handed to attempt n: at which call (the dial of
\* getConnection, ReadMsg, or dns.Exchange), which message, which error
Got(stage, m, e, n) == [stage |-> stage, msg |-> m, err |-> e, n |-> n]

NoGot == Got("none", NilMsg, NoErr, 0)

(* ------------------------------ state ---------------------------------- *)

VARIABLES
    zone,            \* the answer section the servers hold for the name
    resolver,        \* "none", "built" (New), "zero" (&DnsResolver{}), "nil",
                     \* "gone" (process ended), "two" (New called again)
    newErr,          \* the error NewFromResolvConf returned
    callerList,      \* the caller's slice; New keeps it as Servers
    Servers,         \* DnsResolver.Servers
    Servers2,        \* Servers of a second resolver built from the same slice
    RetryTimes,      \* DnsResolver.RetryTimes
    ReuseConnection, \* DnsResolver.ReuseConnection
    r,               \* DnsResolver.r: "nil" or "seeded"
    conns,           \* DnsResolver.conns: address -> connection handle
    socks,           \* the sockets opened by getConnection, by handle
    threads,         \* the goroutines calling the resolver
    rng,             \* per goroutine, where it is in a draw from r.r
    lookups,         \* number of lookups called so far
    pc,              \* position of each goroutine
    api,             \* the public function it called
    triesLeft,       \* performWithRetry's parameter
    qid,             \* identity of the query m1 of the current attempt
    server,          \* local server
    connection,      \* local connection
    in,              \* local in
    err,             \* the named result err of performWithRetry
    cerr,            \* the err declared inside the ReuseConnection block
    result,          \* what performWithRetry returned
    ret,             \* what the lookup returned to its caller
    attempts,        \* calls of performWithRetry in the current lookup
    dials,           \* dials made in the current lookup
    xerrs,           \* errors the transport reported in the current attempt
    timeouts,        \* attempts of the current lookup that saw a timeout
    prevServer,      \* server of the previous attempt of the current lookup
    got,             \* what the transport handed to the last attempt
    given,           \* the list New was called with, as it was passed
    failedDials      \* addresses whose dial by getConnection has failed

config == <<zone, resolver, newErr, callerList, Servers, Servers2, RetryTimes, ReuseConnection, r>>

locals == <<api, triesLeft, qid, server, connection, in, err, cerr, result, ret>>

ghost == <<attempts, dials, xerrs, timeouts, prevServer, got>>

hist == <<given, failedDials>>

vars == <<config, conns, socks, threads, rng, lookups, pc, locals, ghost, hist>>

(* --------------------------- construction ------------------------------ *)

DefaultPort == ":53"

\* New, lines 29-31: servers[i] += ":53"
AppendPort(s) == s \o <<DefaultPort>>

\* New, line 35: RetryTimes: len(servers) * 2
DefaultRetryTimes(servers) == Len(servers) * 2

InitLocals ==
    /\ pc = [t \in TIDs |-> "idle"]
    /\ api = [t \in TIDs |-> "none"]
    /\ triesLeft = [t \in TIDs |-> 0]
    /\ qid = [t \in TIDs |-> <<0, 0, 0>>]
    /\ server = [t \in TIDs |-> <<>>]
    /\ connection = [t \in TIDs |-> 0]
    /\ in = [t \in TIDs |-> NilMsg]
    /\ err = [t \in TIDs |-> NoErr]
    /\ cerr = [t \in TIDs |-> NoErr]
    /\ result = [t \in TIDs |-> NoResult]
    /\ ret = [t \in TIDs |-> NoReturn]
    /\ attempts = [t \in TIDs |-> 0]
    /\ dials = [t \in TIDs |-> 0]
    /\ xerrs = [t \in TIDs |-> {}]
    /\ timeouts = [t \in TIDs |-> 0]
    /\ prevServer = [t \in TIDs |-> <<>>]
    /\ got = [t \in TIDs |-> NoGot]
    /\ rng = [t \in TIDs |-> "out"]

\* before construction: no resolver exists; the caller holds a server list
\* for New, or no list and the path of a file for NewFromResolvConf
InitConfig ==
    /\ resolver = "none"
    /\ newErr = NoErr
    /\ callerList \in ServerLists
    /\ Servers = <<>>
    /\ Servers2 = <<>>
    /\ RetryTimes = 0
    /\ ReuseConnection = FALSE
    /\ r = "nil"
    /\ conns = <<>>
    /\ socks = <<>>
    /\ lookups = 0
    /\ given = <<>>
    /\ failedDials = {}

\* the runs explored: any server list against a plain zone, and one server
\* against any answer section
Init ==
    /\ InitConfig
    /\ InitLocals
    /\ threads = {1}
    /\ \/ zone \in PlainAnswers
       \/ callerList = <<Entries1>> /\ zone \in Answers

\* New(servers): the loop rewrites the caller's slice in place and the
\* resolver keeps that same slice
New ==
    /\ resolver = "none"
    /\ callerList' = [i \in 1..Len(callerList) |-> AppendPort(callerList[i])]
    /\ Servers' = callerList'
    /\ RetryTimes' = DefaultRetryTimes(callerList)
    /\ ReuseConnection' = FALSE
    /\ r' = "seeded"
    /\ conns' = <<>>
    /\ resolver' = "built"
    /\ given' = callerList
    /\ UNCHANGED <<zone, Servers2, newErr, socks, threads, rng, lookups, pc, locals, ghost, failedDials>>

\* New(servers) called once more with the slice the caller passed before:
\* the loop rewrites that slice again, and with it the Servers of the first
\* resolver, which is the same slice.  The two constructions follow one
\* another, before any lookup; lookups are not followed after them.
NewAgain ==
    /\ resolver = "built"
    /\ Len(callerList) = Len(given)
    /\ lookups = 0
    /\ callerList' = [i \in 1..Len(callerList) |-> AppendPort(callerList[i])]
    /\ Servers' = callerList'
    /\ Servers2' = callerList'
    /\ resolver' = "two"
    /\ UNCHANGED <<zone, newErr, RetryTimes, ReuseConnection, r, conns, socks,
                   threads, rng, lookups, pc, locals, ghost, hist>>

\* NewFromResolvConf, line 52: the file parses; New(config.Servers), on a
\* list the caller never held
NewFromResolvConfOK ==
    /\ resolver = "none"
    /\ callerList = <<>>
    /\ \E parsed \in ParsedLists :
         /\ Servers' = [i \in 1..Len(parsed) |-> AppendPort(parsed[i])]
         /\ RetryTimes' = DefaultRetryTimes(parsed)
         /\ given' = parsed
    /\ ReuseConnection' = FALSE
    /\ r' = "seeded"
    /\ conns' = <<>>
    /\ resolver' = "built"
    /\ newErr' = NoErr
    /\ UNCHANGED <<zone, Servers2, callerList, socks, threads, rng, lookups, pc, locals, ghost, failedDials>>

ErrNoSuchFile == <<"no such file or directory: ", "path">>

ErrParse == <<"parse error">>

\* NewFromResolvConf, lines 45-47: the path does not exist
NewFromResolvConfMissing ==
    /\ resolver = "none"
    /\ callerList = <<>>
    /\ resolver' = "zero"
    /\ newErr' = ErrNoSuchFile
    /\ UNCHANGED <<zone, Servers2, callerList, Servers, RetryTimes, ReuseConnection, r,
                   conns, socks, threads, rng, lookups, pc, locals, ghost, hist>>

\* NewFromResolvConf, lines 48-51: the file cannot be parsed
NewFromResolvConfUnparsable ==
    /\ resolver = "none"
    /\ callerList = <<>>
    /\ resolver' = "nil"
    /\ newErr' = ErrParse
    /\ UNCHANGED <<zone, Servers2, callerList, Servers, RetryTimes, ReuseConnection, r,
                   conns, socks, threads, rng, lookups, pc, locals, ghost, hist>>

AllIdle == \A t \in threads : pc[t] = "idle"

\* the lookups explored: MaxLookups by one goroutine, one more for every
\* goroutine that runs beside it
LookupLimit == MaxLookups + Cardinality(threads) - 1

\* the caller configures the exported field RetryTimes before it looks up
SetRetryTimes ==
    /\ resolver \in {"built", "zero"}
    /\ lookups = 0
    /\ \E n \in -1..MaxRetry : RetryTimes' = n /\ n # RetryTimes
    /\ UNCHANGED <<zone, Servers2, resolver, newErr, callerList, Servers, ReuseConnection, r,
                   conns, socks, threads, rng, lookups, pc, locals, ghost, hist>>

\* the caller assigns the exported field ReuseConnection between lookups
SetReuseConnection ==
    /\ resolver \in {"built", "zero"}
    /\ AllIdle
    /\ lookups < MaxLookups
    /\ ReuseConnection' = ~ReuseConnection
    /\ UNCHANGED <<zone, Servers2, resolver, newErr, callerList, Servers, RetryTimes, r,
                   conns, socks, threads, rng, lookups, pc, locals, ghost, hist>>


(* ------------------------------ lookups -------------------------------- *)

\* LookupHost / LookupHostFull, lines 71 / 87: performWithRetry(host, r.RetryTimes, dns.TypeA)
Call(t, f) ==
    /\ resolver \in {"built", "zero"}
    /\ pc[t] = "idle"
    /\ lookups < LookupLimit
    /\ lookups' = lookups + 1
    /\ api' = [api EXCEPT ![t] = f]
    /\ triesLeft' = [triesLeft EXCEPT ![t] = RetryTimes]
    /\ pc' = [pc EXCEPT ![t] = "performWithRetry"]
    /\ result' = [result EXCEPT ![t] = NoResult]
    /\ ret' = [ret EXCEPT ![t] = NoReturn]
    /\ attempts' = [attempts EXCEPT ![t] = 0]
    /\ dials' = [dials EXCEPT ![t] = 0]
    /\ timeouts' = [timeouts EXCEPT ![t] = 0]
    /\ xerrs' = [xerrs EXCEPT ![t] = {}]
    /\ prevServer' = [prevServer EXCEPT ![t] = <<>>]
    /\ got' = [got EXCEPT ![t] = NoGot]
    /\ UNCHANGED <<config, conns, socks, threads, rng, qid, server, connection, in, err, cerr, hist>>

CallLookupHost == \E t \in threads : Call(t, "LookupHost")

CallLookupHostFull == \E t \in threads : Call(t, "LookupHostFull")

\* the frame of performWithRetry is left: its locals are gone
DropFrame(t) ==
    /\ triesLeft' = [triesLeft EXCEPT ![t] = 0]
    /\ qid' = [qid EXCEPT ![t] = <<0, 0, 0>>]
    /\ server' = [server EXCEPT ![t] = <<>>]
    /\ connection' = [connection EXCEPT ![t] = 0]
    /\ in' = [in EXCEPT ![t] = NilMsg]
    /\ err' = [err EXCEPT ![t] = NoErr]
    /\ cerr' = [cerr EXCEPT ![t] = NoErr]

\* performWithRetry, line 110, on a resolver without servers or random
\* source: r.r is nil, or Intn(0) panics; the panic unwinds the lookup
SelectPanics ==
    \E t \in threads :
      /\ pc[t] = "performWithRetry"
      /\ r = "nil" \/ Len(Servers) = 0
      /\ attempts' = [attempts EXCEPT ![t] = @ + 1]
      /\ ret' = [ret EXCEPT ![t] = Panicked]
      /\ pc' = [pc EXCEPT ![t] = "idle"]
      /\ DropFrame(t)
      /\ UNCHANGED <<config, conns, socks, threads, rng, lookups, api, result,
                     dials, xerrs, timeouts, prevServer, got, hist>>

\* performWithRetry, lines 104-114, once the index i is drawn: build the
\* query (m1.Id = dns.Id(), a fresh identity), take r.Servers[i], branch on
\* r.ReuseConnection
Chosen(t, i) ==
    /\ server' = [server EXCEPT ![t] = Servers[i]]
    /\ attempts' = [attempts EXCEPT ![t] = @ + 1]
    /\ qid' = [qid EXCEPT ![t] = <<t, lookups, attempts[t] + 1>>]
    /\ prevServer' = [prevServer EXCEPT ![t] = server[t]]
    /\ xerrs' = [xerrs EXCEPT ![t] = {}]
    /\ in' = [in EXCEPT ![t] = NilMsg]
    /\ err' = [err EXCEPT ![t] = NoErr]
    /\ cerr' = [cerr EXCEPT ![t] = NoErr]
    /\ connection' = [connection EXCEPT ![t] = 0]
    /\ pc' = [pc EXCEPT ![t] = IF ReuseConnection THEN "getConnection" ELSE "Exchange"]
    /\ UNCHANGED <<config, conns, socks, threads, lookups, api, triesLeft,
                   result, ret, dials, timeouts, got, hist>>

\* mutant of Candidates: the server of the last attempt is left out
CandidatesSkipLast(servers, last) ==
    { i \in 1..Len(servers) : servers[i] # last }

\* line 110: the indices r.r.Intn(len(r.Servers)) may return, whatever
\* server the last attempt went to
Candidates(servers, last) == 1..Len(servers)

\* performWithRetry, lines 104-114, for goroutine t and index i: pick
\* r.Servers[r.r.Intn(len(r.Servers))], with no other goroutine in the draw
SelectServer(t, i) ==
    /\ pc[t] = "performWithRetry"
    /\ r = "seeded"
    /\ i \in Candidates(Servers, server[t])
    /\ Chosen(t, i)
    /\ UNCHANGED rng

Select == \E t \in threads : \E i \in 1..Len(Servers) : SelectServer(t, i)

\* whether goroutine t is inside r.r.Intn
Drawing(t) == rng[t] # "out"

\* line 110, r.r.Intn entered: the source (rand.New(rand.NewSource(..)),
\* line 37) has no lock, so a goroutine may enter while another is inside;
\* both draws are then racing on the source's state
IntnBegin ==
    \E t \in threads :
      /\ pc[t] = "performWithRetry"
      /\ r = "seeded"
      /\ Len(Servers) > 0
      /\ rng' = [u \in TIDs |->
                   IF u = t
                   THEN (IF \E v \in threads \ {t} : Drawing(v) THEN "raced" ELSE "in")
                   ELSE (IF Drawing(u) THEN "raced" ELSE "out")]
      /\ pc' = [pc EXCEPT ![t] = "Intn"]
      /\ UNCHANGED <<config, conns, socks, threads, lookups, locals, ghost, hist>>

\* line 110, r.r.Intn returns: some index below len(r.Servers), raced or not
IntnReturns ==
    \E t \in threads :
      /\ pc[t] = "Intn"
      /\ \E i \in Candidates(Servers, server[t]) : Chosen(t, i)
      /\ rng' = [rng EXCEPT ![t] = "out"]

\* line 110, r.r.Intn on a source another goroutine was writing: the
\* source's indices may be left out of range and the draw panics
IntnPanics ==
    \E t \in threads :
      /\ pc[t] = "Intn"
      /\ rng[t] = "raced"
      /\ rng' = [rng EXCEPT ![t] = "out"]
      /\ attempts' = [attempts EXCEPT ![t] = @ + 1]
      /\ ret' = [ret EXCEPT ![t] = Panicked]
      /\ pc' = [pc EXCEPT ![t] = "idle"]
      /\ DropFrame(t)
      /\ UNCHANGED <<config, conns, socks, threads, lookups, api, result,
                     dials, xerrs, timeouts, prevServer, got, hist>>

\* mutant of StoreConn: the dialed connection is returned but not stored
StoreConnForgets(cache, address, c) == cache

\* mutant of StoreConn: the new entry takes the place of all others
StoreConnEvicts(cache, address, c) == [a \in {address} |-> c]

\* mutant of StoreConn: an address that has an entry keeps it
StoreConnKeepsFirst(cache, address, c) ==
    IF address \in DOMAIN cache THEN cache
    ELSE [a \in DOMAIN cache \cup {address} |-> IF a = address THEN c ELSE cache[a]]

\* getConnection, line 62: r.conns[address] = c
StoreConn(cache, address, c) ==
    [a \in DOMAIN cache \cup {address} |-> IF a = address THEN c ELSE cache[a]]

\* getConnection, lines 56-57 and 65: the cached connection, when there is one
getConnectionCached ==
    \E t \in threads :
      /\ pc[t] = "getConnection"
      /\ server[t] \in DOMAIN conns
      /\ connection' = [connection EXCEPT ![t] = conns[server[t]]]
      /\ pc' = [pc EXCEPT ![t] = "WriteMsg"]
      /\ UNCHANGED <<config, conns, socks, threads, rng, lookups, api, triesLeft, qid,
                     server, in, err, cerr, result, ret, ghost, hist>>

\* getConnection, lines 56-57: no cached connection, go and dial
getConnectionMiss ==
    \E t \in threads :
      /\ pc[t] = "getConnection"
      /\ server[t] \notin DOMAIN conns
      /\ pc' = [pc EXCEPT ![t] = "DialTimeout"]
      /\ UNCHANGED <<config, conns, socks, threads, rng, lookups, locals, ghost, hist>>

\* getConnection, lines 58-65: the dial succeeds and its connection is cached
DialOK ==
    \E t \in threads :
      /\ pc[t] = "DialTimeout"
      /\ socks' = Append(socks, [addr |-> server[t], pending |-> {}])
      /\ conns' = StoreConn(conns, server[t], Len(socks) + 1)
      /\ connection' = [connection EXCEPT ![t] = Len(socks) + 1]
      /\ dials' = [dials EXCEPT ![t] = @ + 1]
      /\ pc' = [pc EXCEPT ![t] = "WriteMsg"]
      /\ UNCHANGED <<config, threads, rng, lookups, api, triesLeft, qid, server, in,
                     err, cerr, result, ret, attempts, xerrs, timeouts, prevServer, got, hist>>

\* getConnection, lines 56 and 62, run by two goroutines at once: r.conns
\* is a plain map; when the store of line 62 meets another goroutine's
\* access to the map the Go runtime may end the process (fatal error:
\* concurrent map writes / concurrent map read and map write)
ConnsFault ==
    \E t, u \in threads :
      /\ t # u
      /\ pc[t] = "DialTimeout"
      /\ pc[u] \in {"getConnection", "DialTimeout"}
      /\ resolver' = "gone"
      /\ pc' = [x \in TIDs |-> "idle"]
      /\ ret' = [x \in TIDs |-> IF pc[x] = "idle" THEN ret[x] ELSE Panicked]
      /\ triesLeft' = [x \in TIDs |-> 0]
      /\ qid' = [x \in TIDs |-> <<0, 0, 0>>]
      /\ server' = [x \in TIDs |-> <<>>]
      /\ connection' = [x \in TIDs |-> 0]
      /\ in' = [x \in TIDs |-> NilMsg]
      /\ err' = [x \in TIDs |-> NoErr]
      /\ cerr' = [x \in TIDs |-> NoErr]
      /\ rng' = [x \in TIDs |-> "out"]
      /\ UNCHANGED <<zone, Servers2, newErr, callerList, Servers, RetryTimes, ReuseConnection, r,
                     conns, socks, threads, lookups, api, result, ghost, hist>>

\* whether an error's text ends in "i/o timeout" (strings.HasSuffix, line 126)
HasSuffixTimeout(e) == Len(e) > 0 /\ e[Len(e)] = "i/o timeout"

\* the attempt's count of timeouts after the transport reported e
Seen(t, e) ==
    /\ xerrs' = [xerrs EXCEPT ![t] = @ \cup {e}]
    /\ timeouts' = [timeouts EXCEPT ![t] =
                       IF HasSuffixTimeout(e) /\ \A x \in xerrs[t] : ~HasSuffixTimeout(x)
                       THEN @ + 1 ELSE @]

\* mutant of AfterFailedDial: the nil connection is stored before the error
\* is looked at
AfterFailedDialStores(cache, address) == StoreConn(cache, address, 0)

\* getConnection, lines 59-61: return nil, err leaves r.conns as it was
AfterFailedDial(cache, address) == cache

\* getConnection, lines 58-61, and performWithRetry, lines 115-118: the dial
\* fails, nothing is cached, performWithRetry returns nil, err
DialFails ==
    \E t \in threads :
      /\ pc[t] = "DialTimeout"
      /\ \E e \in DialErrs :
           /\ cerr' = [cerr EXCEPT ![t] = e]
           /\ result' = [result EXCEPT ![t] = [msg |-> NilMsg, err |-> e]]
           /\ got' = [got EXCEPT ![t] = Got("dial", NilMsg, e, attempts[t])]
           /\ Seen(t, e)
      /\ conns' = AfterFailedDial(conns, server[t])
      /\ failedDials' = failedDials \cup {server[t]}
      /\ dials' = [dials EXCEPT ![t] = @ + 1]
      /\ pc' = [pc EXCEPT ![t] = "return"]
      /\ UNCHANGED <<config, socks, threads, rng, lookups, api, triesLeft, qid,
                     server, connection, in, err, ret, attempts, prevServer, given>>

\* performWithRetry, line 119: connection.WriteMsg(m1); its error is dropped.
\* A query that was sent may be answered on this socket, now or later.
WriteMsg ==
    \E t \in threads :
      /\ pc[t] = "WriteMsg"
      /\ \/ /\ socks' = [socks EXCEPT ![connection[t]].pending = @ \cup {qid[t]}]
            /\ UNCHANGED <<xerrs, timeouts>>
         \/ /\ \E e \in WriteErrs : Seen(t, e)
            /\ UNCHANGED socks
      /\ pc' = [pc EXCEPT ![t] = "ReadMsg"]
      /\ UNCHANGED <<config, conns, threads, rng, lookups, locals, attempts, dials,
                     prevServer, got, hist>>

\* the responses a server may give to query q: its answer section, or a
\* failure code
Replies(q) ==
    { Msg(q, RcodeSuccess, zone) }
    \cup { Msg(q, rc, <<>>) : rc \in Rcodes \ {RcodeSuccess} }

\* performWithRetry, line 120: in, err = connection.ReadMsg(), where err is
\* the variable declared at line 115.  The socket hands over the reply to
\* any query written to it and not yet read.
ReadMsgReply ==
    \E t \in threads :
      /\ pc[t] = "ReadMsg"
      /\ \E q \in socks[connection[t]].pending :
           /\ \E m \in Replies(q) :
                /\ in' = [in EXCEPT ![t] = <<m>>]
                /\ got' = [got EXCEPT ![t] = Got("read", <<m>>, NoErr, attempts[t])]
           /\ socks' = [socks EXCEPT ![connection[t]].pending = @ \ {q}]
      /\ cerr' = [cerr EXCEPT ![t] = NoErr]
      /\ pc' = [pc EXCEPT ![t] = "classify"]
      /\ UNCHANGED <<config, conns, threads, rng, lookups, api, triesLeft, qid, server,
                     connection, err, result, ret, attempts, dials, xerrs,
                     timeouts, prevServer, hist>>

\* performWithRetry, line 120: ReadMsg fails (deadline passed, or ICMP error)
ReadMsgFails ==
    \E t \in threads :
      /\ pc[t] = "ReadMsg"
      /\ \E e \in ReadErrs :
           /\ cerr' = [cerr EXCEPT ![t] = e]
           /\ got' = [got EXCEPT ![t] = Got("read", NilMsg, e, attempts[t])]
           /\ Seen(t, e)
      /\ in' = [in EXCEPT ![t] = NilMsg]
      /\ pc' = [pc EXCEPT ![t] = "classify"]
      /\ UNCHANGED <<config, conns, socks, threads, rng, lookups, api, triesLeft, qid,
                     server, connection, err, result, ret, attempts, dials, prevServer, hist>>

\* performWithRetry, line 122: in, err = dns.Exchange(m1, server) answers
ExchangeReply ==
    \E t \in threads :
      /\ pc[t] = "Exchange"
      /\ \E m \in Replies(qid[t]) :
           /\ in' = [in EXCEPT ![t] = <<m>>]
           /\ got' = [got EXCEPT ![t] = Got("exchange", <<m>>, NoErr, attempts[t])]
      /\ err' = [err EXCEPT ![t] = NoErr]
      /\ dials' = [dials EXCEPT ![t] = @ + 1]
      /\ pc' = [pc EXCEPT ![t] = "classify"]
      /\ UNCHANGED <<config, conns, socks, threads, rng, lookups, api, triesLeft, qid,
                     server, connection, cerr, result, ret, attempts, xerrs,
                     timeouts, prevServer, hist>>

\* performWithRetry, line 122: dns.Exchange fails
ExchangeFails ==
    \E t \in threads :
      /\ pc[t] = "Exchange"
      /\ \E e \in ExchangeErrs :
           /\ err' = [err EXCEPT ![t] = e]
           /\ got' = [got EXCEPT ![t] = Got("exchange", NilMsg, e, attempts[t])]
           /\ Seen(t, e)
      /\ in' = [in EXCEPT ![t] = NilMsg]
      /\ dials' = [dials EXCEPT ![t] = @ + 1]
      /\ pc' = [pc EXCEPT ![t] = "classify"]
      /\ UNCHANGED <<config, conns, socks, threads, rng, lookups, api, triesLeft, qid,
                     server, connection, cerr, result, ret, attempts, prevServer, hist>>

\* mutant of ShouldRetry: a timeout is retried once more when nothing is left
ShouldRetryOnceMore(e, tries) == HasSuffixTimeout(e) /\ tries >= 0

\* performWithRetry, line 126: the condition of the retry
ShouldRetry(e, tries) == HasSuffixTimeout(e) /\ tries > 0

\* mutant of RcodeFailed: only SERVFAIL counts as a failure
RcodeFailedOnlyServFail(m) == m # NilMsg /\ m[1].Rcode = "SERVFAIL"

\* mutant of RcodeFailed: an empty answer section counts as a failure
RcodeFailedOrEmpty(m) ==
    m # NilMsg /\ (m[1].Rcode # RcodeSuccess \/ m[1].Answer = <<>>)

\* performWithRetry, line 133: in != nil && in.Rcode != dns.RcodeSuccess
RcodeFailed(m) == m # NilMsg /\ m[1].Rcode # RcodeSuccess

\* mutant of Retry: the retry is also taken off the resolver's RetryTimes
RetrySpendsField ==
    \E t \in threads :
      /\ pc[t] = "classify"
      /\ err[t] # NoErr
      /\ ShouldRetry(err[t], triesLeft[t])
      /\ triesLeft' = [triesLeft EXCEPT ![t] = @ - 1]
      /\ RetryTimes' = RetryTimes - 1
      /\ pc' = [pc EXCEPT ![t] = "performWithRetry"]
      /\ UNCHANGED <<zone, Servers2, resolver, newErr, callerList, Servers, ReuseConnection, r,
                     conns, socks, threads, rng, lookups, api, qid, server,
                     connection, in, err, cerr, result, ret, ghost, hist>>

\* performWithRetry, lines 125-129: triesLeft--, and the call of itself
Retry ==
    \E t \in threads :
      /\ pc[t] = "classify"
      /\ err[t] # NoErr
      /\ ShouldRetry(err[t], triesLeft[t])
      /\ triesLeft' = [triesLeft EXCEPT ![t] = @ - 1]
      /\ pc' = [pc EXCEPT ![t] = "performWithRetry"]
      /\ UNCHANGED <<config, conns, socks, threads, rng, lookups, api, qid, server,
                     connection, in, err, cerr, result, ret, ghost, hist>>

\* performWithRetry, lines 125 and 130: return result, err
ReturnErr ==
    \E t \in threads :
      /\ pc[t] = "classify"
      /\ err[t] # NoErr
      /\ ~ShouldRetry(err[t], triesLeft[t])
      /\ result' = [result EXCEPT ![t] = [msg |-> NilMsg, err |-> err[t]]]
      /\ pc' = [pc EXCEPT ![t] = "return"]
      /\ UNCHANGED <<config, conns, socks, threads, rng, lookups, api, triesLeft, qid,
                     server, connection, in, err, cerr, ret, ghost, hist>>

\* performWithRetry, lines 133-135: errors.New(dns.RcodeToString[in.Rcode])
ReturnRcode ==
    \E t \in threads :
      /\ pc[t] = "classify"
      /\ err[t] = NoErr
      /\ RcodeFailed(in[t])
      /\ result' = [result EXCEPT ![t] =
                       [msg |-> NilMsg, err |-> RcodeToString(in[t][1].Rcode)]]
      /\ pc' = [pc EXCEPT ![t] = "return"]
      /\ UNCHANGED <<config, conns, socks, threads, rng, lookups, api, triesLeft, qid,
                     server, connection, in, err, cerr, ret, ghost, hist>>

\* performWithRetry, line 137: return in, nil
ReturnIn ==
    \E t \in threads :
      /\ pc[t] = "classify"
      /\ err[t] = NoErr
      /\ ~RcodeFailed(in[t])
      /\ result' = [result EXCEPT ![t] = [msg |-> in[t], err |-> NoErr]]
      /\ pc' = [pc EXCEPT ![t] = "return"]
      /\ UNCHANGED <<config, conns, socks, threads, rng, lookups, api, triesLeft, qid,
                     server, connection, in, err, cerr, ret, ghost, hist>>

\* mutant of HostStep: the address is put in front of the result
HostStepPrepends(res, record) ==
    IF record.type = "A" THEN <<record.A>> \o res ELSE res

\* LookupHost, lines 77-79: one turn of the loop over in.Answer
HostStep(res, record) ==
    IF record.type = "A" THEN Append(res, record.A) ELSE res

RECURSIVE HostLoop(_, _, _)
\* LookupHost, lines 76-80
HostLoop(answer, i, res) ==
    IF i > Len(answer) THEN res
    ELSE HostLoop(answer, i + 1, HostStep(res, answer[i]))

\* LookupHostFull, lines 93-98: one turn of the loop over in.Answer
FullStep(acc, record) ==
    CASE record.type = "A" ->
           [result |-> Append(acc.result, record.A), resultCname |-> acc.resultCname]
      [] record.type = "CNAME" ->
           [result |-> acc.result, resultCname |-> Append(acc.resultCname, record.Target)]
      [] OTHER -> acc

RECURSIVE FullLoop(_, _, _)
\* LookupHostFull, lines 92-99
FullLoop(answer, i, acc) ==
    IF i > Len(answer) THEN acc
    ELSE FullLoop(answer, i + 1, FullStep(acc, answer[i]))

\* LookupHost, lines 71-81, once performWithRetry has returned
LookupHostReturn ==
    \E t \in threads :
      /\ pc[t] = "return"
      /\ api[t] = "LookupHost"
      /\ ret' = [ret EXCEPT ![t] =
                   IF result[t].err # NoErr THEN Returned(<<>>, <<>>, result[t].err)
                   ELSE IF result[t].msg = NilMsg THEN Panicked
                   ELSE Returned(HostLoop(result[t].msg[1].Answer, 1, <<>>), <<>>, NoErr)]
      /\ pc' = [pc EXCEPT ![t] = "idle"]
      /\ DropFrame(t)
      /\ UNCHANGED <<config, conns, socks, threads, rng, lookups, api, result, ghost, hist>>

\* LookupHostFull, lines 87-100, once performWithRetry has returned
LookupHostFullReturn ==
    \E t \in threads :
      /\ pc[t] = "return"
      /\ api[t] = "LookupHostFull"
      /\ ret' = [ret EXCEPT ![t] =
                   IF result[t].err # NoErr THEN Returned(<<>>, <<>>, result[t].err)
                   ELSE IF result[t].msg = NilMsg THEN Panicked
                   ELSE LET acc == FullLoop(result[t].msg[1].Answer, 1,
                                            [result |-> <<>>, resultCname |-> <<>>])
                        IN  Returned(acc.result, acc.resultCname, NoErr)]
      /\ pc' = [pc EXCEPT ![t] = "idle"]
      /\ DropFrame(t)
      /\ UNCHANGED <<config, conns, socks, threads, rng, lookups, api, result, ghost, hist>>

(* --------------------------- specification ----------------------------- *)

Next ==
    \/ New
    \/ NewAgain
    \/ NewFromResolvConfOK
    \/ NewFromResolvConfMissing
    \/ NewFromResolvConfUnparsable
    \/ SetRetryTimes
    \/ SetReuseConnection
    \/ CallLookupHost
    \/ CallLookupHostFull
    \/ SelectPanics
    \/ Select
    \/ getConnectionCached
    \/ getConnectionMiss
    \/ DialOK
    \/ DialFails
    \/ WriteMsg
    \/ ReadMsgReply
    \/ ReadMsgFails
    \/ ExchangeReply
    \/ ExchangeFails
    \/ Retry
    \/ ReturnErr
    \/ ReturnRcode
    \/ ReturnIn
    \/ LookupHostReturn
    \/ LookupHostFullReturn

Spec == Init /\ [][Next]_vars

\* the steps of a lookup that has been called: the code's own steps and
\* the returns of the transport's operations
LookupStep ==
    \/ SelectPanics
    \/ Select
    \/ getConnectionCached
    \/ getConnectionMiss
    \/ DialOK
    \/ DialFails
    \/ WriteMsg
    \/ ReadMsgReply
    \/ ReadMsgFails
    \/ ExchangeReply
    \/ ExchangeFails
    \/ Retry
    \/ ReturnErr
    \/ ReturnRcode
    \/ ReturnIn
    \/ LookupHostReturn
    \/ LookupHostFullReturn

\* the runs followed to their end: one zone, and a list of at most one entry
\* in the caller's hands (longer lists come from NewFromResolvConf)
InitLive ==
    /\ Init
    /\ zone = <<RR("A", "10.0.0.1", "")>>
    /\ Len(callerList) <= 1

\* every transport operation that was called returns, and a goroutine that
\* can take a step takes one
SpecLive == InitLive /\ [][Next]_vars /\ WF_vars(LookupStep)

\* goroutines sharing one resolver: it is constructed from a server list,
\* and the caller has assigned RetryTimes, or has set ReuseConnection,
\* before the goroutines start
InitConc ==
    /\ InitLocals
    /\ threads = TIDs
    /\ resolver = "built"
    /\ newErr = NoErr
    /\ given \in ParsedLists
    /\ Len(given) > 0
    /\ callerList = [i \in 1..Len(given) |-> AppendPort(given[i])]
    /\ Servers = callerList
    /\ Servers2 = <<>>
    /\ \/ /\ ReuseConnection = FALSE
          /\ RetryTimes \in 0..MaxRetry
          /\ zone \in PlainAnswers
       \/ /\ ReuseConnection = TRUE
          /\ RetryTimes = DefaultRetryTimes(given)
          /\ zone = <<RR("A", "10.0.0.1", "")>>
    /\ r = "seeded"
    /\ conns = <<>>
    /\ socks = <<>>
    /\ lookups = 0
    /\ failedDials = {}

\* the steps of lookups that run side by side
NextConc ==
    \/ CallLookupHost
    \/ CallLookupHostFull
    \/ IntnBegin
    \/ IntnReturns
    \/ IntnPanics
    \/ getConnectionCached
    \/ getConnectionMiss
    \/ DialOK
    \/ ConnsFault
    \/ DialFails
    \/ WriteMsg
    \/ ReadMsgReply
    \/ ReadMsgFails
    \/ ExchangeReply
    \/ ExchangeFails
    \/ Retry
    \/ ReturnErr
    \/ ReturnRcode
    \/ ReturnIn
    \/ LookupHostReturn
    \/ LookupHostFullReturn

SpecConc == InitConc /\ [][NextConc]_vars


(* ------------------------------ claims --------------------------------- *)

\* the lookup of goroutine t has ended
Done(t) == pc[t] = "idle" /\ ret[t].kind # "none"

\* the resolver was constructed with at least one server
Usable == resolver = "built" /\ Len(Servers) > 0

\* every attempt of t's lookup had its exchange (ReadMsg or dns.Exchange)
\* time out, and the transport reported nothing but timeouts
AllTimedOut(t) ==
    /\ attempts[t] > 0
    /\ timeouts[t] = attempts[t]
    /\ got[t].stage \in {"read", "exchange"}
    /\ \A e \in xerrs[t] : HasSuffixTimeout(e)

\* C1: for either setting of ReuseConnection and any RetryTimes >= 0, a
\* LookupHost whose every attempt times out makes exactly RetryTimes + 1
\* attempts and then returns a timeout error and no addresses.
C1_TimeoutsUseTheBudget ==
    \A t \in threads :
        (Done(t) /\ api[t] = "LookupHost" /\ RetryTimes >= 0 /\ AllTimedOut(t))
        => /\ attempts[t] = RetryTimes + 1
           /\ ret[t].kind = "returned"
           /\ HasSuffixTimeout(ret[t].err)
           /\ ret[t].result = <<>>


\* the transport handed t's last attempt a response, with no error
Answered(t) == got[t].err = NoErr /\ got[t].msg # NilMsg

\* C2: a response with a non-success code, received without transport error,
\* makes the lookup fail at once with the error that names the code; no
\* further attempt follows, whatever is left of triesLeft.
C2_RcodeFailsAtOnce ==
    \A t \in threads :
        /\ (pc[t] = "performWithRetry" /\ attempts[t] > 0) => ~Answered(t)
        /\ (Done(t) /\ Answered(t) /\ got[t].msg[1].Rcode # RcodeSuccess)
           => /\ ret[t] = Returned(<<>>, <<>>, RcodeToString(got[t].msg[1].Rcode))
              /\ attempts[t] = got[t].n

\* C2 witness: NXDOMAIN on the first attempt, with retries left
C2_Witness ==
    \E t \in threads :
          /\ Done(t) /\ Answered(t) /\ got[t].msg[1].Rcode = "NXDOMAIN"
          /\ attempts[t] = 1 /\ RetryTimes > 0
          /\ ret[t].err = RcodeToString("NXDOMAIN")

\* C3: a transport error other than a timeout ends the lookup on its
\* attempt: it is returned to the caller and nothing is retried; a retry
\* follows a timeout only.
C3_OtherErrorsEndTheLookup ==
    \A t \in threads :
        /\ (pc[t] = "performWithRetry" /\ attempts[t] > 0)
           => (xerrs[t] # {} /\ \A e \in xerrs[t] : HasSuffixTimeout(e))
        /\ (Done(t) /\ Usable /\ \E e \in xerrs[t] : ~HasSuffixTimeout(e))
           => /\ ret[t].kind = "returned"
              /\ ret[t].err \in xerrs[t]
              /\ ~HasSuffixTimeout(ret[t].err)
              /\ ret[t].result = <<>>

\* C4: a lookup ends either in success, backed by a response with success
\* code that a server sent, or in one error and no results;
\* performWithRetry never returns no message and no error.
C4_OneOutcome ==
    \A t \in threads :
        Usable =>
          /\ pc[t] = "return" => ~(result[t].msg = NilMsg /\ result[t].err = NoErr)
          /\ Done(t) =>
               /\ ret[t].kind = "returned"
               /\ \/ /\ ret[t].err = NoErr
                     /\ result[t].msg # NilMsg
                     /\ result[t].msg = got[t].msg
                     /\ result[t].msg[1].Rcode = RcodeSuccess
                  \/ /\ ret[t].err # NoErr
                     /\ ret[t].result = <<>>
                     /\ ret[t].resultCname = <<>>

\* C5: a cached connection stays in use after a send or receive on it has
\* failed, and every failing use of it is returned to the caller as an error
\* (a timeout is retried first) instead of being swallowed.
C5_BrokenConnectionSurfaces ==
    /\ \A h1, h2 \in 1..Len(socks) : socks[h1].addr = socks[h2].addr => h1 = h2
    /\ \A t \in threads :
         /\ pc[t] \in {"WriteMsg", "ReadMsg"}
            => (server[t] \in DOMAIN conns /\ conns[server[t]] = connection[t])
         /\ (Done(t) /\ got[t].stage = "read" /\ dials[t] = 0 /\ xerrs[t] # {})
            => (ret[t].kind = "returned" /\ ret[t].err \in xerrs[t])


IsA(record) == record.type = "A"

IsCNAME(record) == record.type = "CNAME"

\* the addresses of the A records of an answer section, in answer order
AddressesOf(answer) ==
    LET as == SelectSeq(answer, IsA) IN [i \in 1..Len(as) |-> as[i].A]

\* the targets of the CNAME records of an answer section, in answer order
TargetsOf(answer) ==
    LET cs == SelectSeq(answer, IsCNAME) IN [i \in 1..Len(cs) |-> cs[i].Target]

\* t's last attempt received a response with success code
Succeeded(t) == Answered(t) /\ got[t].msg[1].Rcode = RcodeSuccess

\* C6: on a successful response LookupHostFull returns the addresses of all
\* A records and, separately, the targets of all CNAME records, each in
\* answer order; LookupHost returns exactly the A addresses in answer
\* order, which is the address sequence LookupHostFull computes for that
\* response.
C6_Extraction ==
    \A t \in threads :
        (Done(t) /\ Succeeded(t)) =>
            LET answer == got[t].msg[1].Answer IN
            /\ ret[t].kind = "returned"
            /\ ret[t].err = NoErr
            /\ ret[t].result = AddressesOf(answer)
            /\ api[t] = "LookupHostFull" => ret[t].resultCname = TargetsOf(answer)
            /\ api[t] = "LookupHost" =>
                 ret[t].result =
                   FullLoop(answer, 1, [result |-> <<>>, resultCname |-> <<>>]).result

\* C6 witness: two A records and a CNAME record, through LookupHostFull
C6_Witness ==
    \E t \in threads :
          /\ Done(t) /\ Succeeded(t) /\ api[t] = "LookupHostFull"
          /\ Len(got[t].msg[1].Answer) = 3
          /\ ret[t].result = <<"10.0.0.1", "10.0.0.2">>
          /\ ret[t].resultCname = <<"alias.example.com.">>

\* C7: a response with success code and no A record (an empty answer section
\* included) makes LookupHost return no address and no error, and is not
\* retried.
C7_EmptyAnswerIsSuccess ==
    \A t \in threads :
        /\ (pc[t] = "performWithRetry" /\ attempts[t] > 0) => ~Succeeded(t)
        /\ (Done(t) /\ api[t] = "LookupHost" /\ Succeeded(t)
              /\ AddressesOf(got[t].msg[1].Answer) = <<>>)
           => /\ ret[t] = Returned(<<>>, <<>>, NoErr)
              /\ attempts[t] = got[t].n

\* C7 witness: LookupHost has returned on an empty answer section
C7_Witness ==
    \E t \in threads :
          /\ Done(t) /\ api[t] = "LookupHost" /\ Succeeded(t)
          /\ got[t].msg[1].Answer = <<>>
          /\ ret[t] = Returned(<<>>, <<>>, NoErr)

\* whether a server entry names a port
HasPort(s) == Len(s) > 1

\* an entry with the default port added when it names none
Normalized(s) == IF HasPort(s) THEN s ELSE s \o <<DefaultPort>>

\* C8: the constructor sets RetryTimes to 2 x len(servers), ReuseConnection
\* to false, the connection cache to empty, and gives the default port to
\* every entry that names none, leaving an entry that names a port as it is.
C8_Constructor ==
    [][(resolver = "none" /\ resolver' = "built") =>
           /\ RetryTimes' = 2 * Len(given')
           /\ ReuseConnection' = FALSE
           /\ conns' = <<>>
           /\ Servers' = [i \in 1..Len(given') |-> Normalized(given'[i])]]_vars

\* C9: with ReuseConnection set, getConnection dials each address
\* successfully at most once and every attempt on that address uses that
\* one connection; with it unset every attempt dials for itself and the
\* cache is not consulted.
C9_DialOncePerAddress ==
    /\ \A h1, h2 \in 1..Len(socks) : socks[h1].addr = socks[h2].addr => h1 = h2
    /\ \A t \in threads :
         /\ pc[t] \in {"WriteMsg", "ReadMsg"}
            => /\ server[t] \in DOMAIN conns
               /\ conns[server[t]] = connection[t]
               /\ connection[t] \in 1..Len(socks)
               /\ socks[connection[t]].addr = server[t]
         /\ (pc[t] # "idle" /\ ~ReuseConnection)
            => /\ pc[t] \in {"performWithRetry", "Exchange", "classify", "return"}
               /\ dials[t] = IF pc[t] = "Exchange" THEN attempts[t] - 1 ELSE attempts[t]
         /\ (Done(t) /\ got[t].stage = "exchange") => dials[t] = attempts[t]

\* C9 witness: a second lookup is handed the connection the first one dialed
C9_Witness ==
    \E t \in threads :
          /\ pc[t] = "WriteMsg" /\ lookups = 2 /\ dials[t] = 0
          /\ conns[server[t]] = connection[t]

\* C10: a failed dial in getConnection fails the lookup with that transport
\* error and stores nothing for the address, so that the next attempt on the
\* address dials again.
C10_FailedDialNotCached ==
    /\ \A a \in DOMAIN conns : conns[a] \in 1..Len(socks) /\ socks[conns[a]].addr = a
    /\ \A t \in threads :
         /\ (pc[t] = "return" /\ got[t].stage = "dial")
            => /\ server[t] \notin DOMAIN conns
               /\ result[t] = [msg |-> NilMsg, err |-> got[t].err]
         /\ (Done(t) /\ got[t].stage = "dial")
            => /\ got[t].err \in DialErrs
               /\ ret[t] = Returned(<<>>, <<>>, got[t].err)
         /\ (pc[t] = "getConnection" /\ server[t] \in failedDials
               /\ \A h \in 1..Len(socks) : socks[h].addr # server[t])
            => server[t] \notin DOMAIN conns

\* C10 witness: an address whose dial failed in an earlier lookup is dialed
\* again
C10_Witness ==
    \E t \in threads :
          pc[t] = "DialTimeout" /\ server[t] \in failedDials /\ lookups = 2

\* C11: a lookup on a resolver whose server list is empty (New of an empty
\* list, or the resolver NewFromResolvConf returns for a missing path) ends
\* by returning an error to its caller; it does not panic and the transport
\* is never called.
C11_EmptyServerListIsAnError ==
    \A t \in threads :
        (Done(t) /\ resolver \in {"built", "zero"} /\ Len(Servers) = 0)
        => /\ ret[t].kind = "returned"
           /\ ret[t].err # NoErr
           /\ dials[t] = 0
           /\ got[t].stage = "none"

\* what t's lookup returns when it runs alone and the transport hands its
\* last attempt got[t]
Alone(t) ==
    IF got[t].err # NoErr THEN Returned(<<>>, <<>>, got[t].err)
    ELSE IF RcodeFailed(got[t].msg)
         THEN Returned(<<>>, <<>>, RcodeToString(got[t].msg[1].Rcode))
    ELSE Returned(AddressesOf(got[t].msg[1].Answer),
                  IF api[t] = "LookupHostFull"
                  THEN TargetsOf(got[t].msg[1].Answer) ELSE <<>>,
                  NoErr)

\* C12: with ReuseConnection false, lookups that run side by side on one
\* resolver do not disturb each other: under every interleaving each lookup
\* ends with the outcome it has alone for what the transport handed to it.
C12_ConcurrentLookupsIndependent ==
    \A t \in threads :
        (Done(t) /\ Usable /\ ~ReuseConnection)
        => /\ got[t].stage = "exchange"
           /\ ret[t] = Alone(t)

\* the handles of the sockets dialed for address a
HandlesOf(a) == { h \in 1..Len(socks) : socks[h].addr = a }

\* goroutine t was handed, by ReadMsg, the reply to another goroutine's query
CrossRead(t) ==
    /\ got[t].stage = "read"
    /\ got[t].msg # NilMsg
    /\ got[t].msg[1].q[1] # t

\* C13: with ReuseConnection set and two lookups running side by side, both
\* can find the address absent and both dial, the later store replacing the
\* earlier handle in r.conns; and two lookups that share a cached connection
\* can each send a query and one be handed the reply to the other's.  The
\* cache always holds the handle dialed last for its address, and neither
\* state arises without ReuseConnection.
C13_UnsafeUnderReuse ==
    /\ \A a \in DOMAIN conns :
         /\ HandlesOf(a) # {}
         /\ \A h \in HandlesOf(a) : h <= conns[a]
    /\ \A t \in threads :
         pc[t] \in {"WriteMsg", "ReadMsg"} => connection[t] \in HandlesOf(server[t])
    /\ (\E a \in DOMAIN conns : Cardinality(HandlesOf(a)) > 1) => ReuseConnection
    /\ (\E t \in threads : CrossRead(t)) => ReuseConnection

\* C13 witness: one address was dialed twice and the cache holds the second
\* handle; one goroutine holds the reply to the other's query
C13_Witness ==
    /\ \E a \in DOMAIN conns :
         \E h \in HandlesOf(a) : h < conns[a] /\ conns[a] \in HandlesOf(a)
    /\ \E t \in threads : CrossRead(t)

\* the largest number of attempts the budget allows
MaxAttempts == (IF RetryTimes > 0 THEN RetryTimes ELSE 0) + 1

\* an attempt of t's lookup is in progress
InAttempt(t) ==
    pc[t] \in {"getConnection", "DialTimeout", "WriteMsg", "ReadMsg", "Exchange", "classify"}

\* the timeouts of t's lookup that were retried: what is gone from triesLeft
Retried(t) == RetryTimes - triesLeft[t]

\* the attempt counts of C14 in every state
C14_Attempts ==
    \A t \in threads :
        /\ pc[t] = "performWithRetry"
           => /\ attempts[t] = Retried(t)
              /\ attempts[t] > 0 => (HasSuffixTimeout(err[t]) /\ timeouts[t] = attempts[t])
        /\ (InAttempt(t) \/ pc[t] = "return")
           => /\ attempts[t] = 1 + Retried(t)
              /\ timeouts[t] >= Retried(t)
        /\ InAttempt(t) => qid[t] = <<t, lookups, attempts[t]>>
        /\ pc[t] # "idle" => attempts[t] <= MaxAttempts
        /\ Done(t) => /\ attempts[t] >= 1
                      /\ attempts[t] <= MaxAttempts
                      /\ timeouts[t] >= attempts[t] - 1

\* C14: when every transport operation returns, every lookup called ends;
\* its attempts come one after the other, at least 1 and at most
\* max(RetryTimes, 0) + 1 of them, and their number is 1 plus the number of
\* timeouts that were retried.
C14_Terminates ==
    /\ []C14_Attempts
    /\ \A t \in TIDs : (pc[t] # "idle") ~> Done(t)

\* C14 witness: a lookup has ended after using its whole budget of retries
C14_Witness ==
    \E t \in threads :
        /\ Done(t)
        /\ RetryTimes > 0
        /\ attempts[t] = RetryTimes + 1
        /\ timeouts[t] = attempts[t]

\* C15: the server of every attempt, first or retry, is drawn from the whole
\* of r.Servers whatever the earlier attempts did: before each attempt every
\* configured server can be selected, the one that just timed out included,
\* and an attempt only ever goes to a configured server.
C15_EveryServerSelectable ==
    \A t \in threads :
        /\ (pc[t] = "performWithRetry" /\ r = "seeded")
           => \A i \in 1..Len(Servers) : ENABLED SelectServer(t, i)
        /\ InAttempt(t) => \E i \in 1..Len(Servers) : server[t] = Servers[i]

\* C15 witness: with two different servers, the retry after the first
\* timeout went to the same server again, that attempt timed out too, and the
\* next retry can go to the same server and can go to the other one
C15_Witness ==
    \E t \in threads :
        /\ pc[t] = "performWithRetry"
        /\ attempts[t] = 2
        /\ timeouts[t] = 2
        /\ prevServer[t] = server[t]
        /\ \E i, j \in 1..Len(Servers) :
             /\ Servers[i] = server[t]
             /\ Servers[j] # server[t]
             /\ ENABLED SelectServer(t, i)
             /\ ENABLED SelectServer(t, j)

\* a step of a lookup: its call, or a step of a call in progress
LookupAct == CallLookupHost \/ CallLookupHostFull \/ LookupStep

\* C16: no step of a lookup, whatever its outcome, changes Servers,
\* RetryTimes or ReuseConnection (of the resolver only conns and r may
\* change), and so every lookup starts with triesLeft = RetryTimes, the
\* whole configured budget, whatever earlier lookups used up.
C16_LookupFrame ==
    [][LookupAct =>
         /\ Servers' = Servers
         /\ RetryTimes' = RetryTimes
         /\ ReuseConnection' = ReuseConnection
         /\ resolver' = resolver
         /\ \A t \in threads :
              (pc[t] = "idle" /\ pc'[t] # "idle")
              => /\ triesLeft'[t] = RetryTimes
                 /\ attempts'[t] = 0]_vars

\* C16 witness: a second lookup has used the whole budget RetryTimes, and
\* the resolver's fields are as the constructor set them
C16_Witness ==
    \E t \in threads :
        /\ lookups = 2
        /\ Done(t)
        /\ attempts[t] = RetryTimes + 1
        /\ RetryTimes = DefaultRetryTimes(given)
        /\ RetryTimes > 0
        /\ Servers = [i \in 1..Len(given) |-> AppendPort(given[i])]
        /\ ~ReuseConnection

\* the keys of r.conns are addresses of r.Servers
KeysConfigured ==
    \A a \in DOMAIN conns : \E i \in 1..Len(Servers) : Servers[i] = a

\* C17: in sequential use r.conns only grows: an entry, once stored, is
\* neither removed nor replaced; its keys are addresses of r.Servers; and it
\* changes only in a dial of getConnection made with ReuseConnection set, so
\* it stays empty as long as every lookup ran with ReuseConnection false.
C17_CacheOnlyGrows ==
    /\ [][/\ \A a \in DOMAIN conns : a \in DOMAIN conns' /\ conns'[a] = conns[a]
          /\ conns' # conns
             => /\ ReuseConnection
                /\ \E t \in threads :
                     /\ pc[t] = "DialTimeout"
                     /\ server[t] \notin DOMAIN conns
                     /\ DOMAIN conns' = DOMAIN conns \cup {server[t]}]_vars
    /\ []KeysConfigured

\* C17 witness: two lookups have each added an entry, for two addresses
C17_Witness ==
    /\ lookups = 2
    /\ Cardinality(DOMAIN conns) = 2
    /\ \A a \in DOMAIN conns : conns[a] \in 1..Len(socks) /\ socks[conns[a]].addr = a

\* C18: with ReuseConnection and lookups made one after the other, the
\* response a lookup returns was read as the reply to the query of that very
\* attempt; the reply to an earlier query that comes late over the cached
\* connection is never taken for it.
C18_ReplyBelongsToAttempt ==
    \A t \in threads :
        (Done(t) /\ ret[t].kind = "returned" /\ got[t].stage = "read"
           /\ got[t].msg # NilMsg)
        => got[t].msg[1].q = <<t, lookups, got[t].n>>

\* C19: New leaves the list it is given as the caller wrote it, and can be
\* repeated: after two resolvers were built one after the other from the
\* same list, the caller's list is unchanged and both resolvers hold, for
\* every entry without a port, the entry with the default port added once.
C19_ConstructionRepeatable ==
    resolver = "two"
    => /\ callerList = given
       /\ Servers2 = Servers
       /\ \A i \in 1..Len(given) :
            ~HasPort(given[i]) => Servers2[i] = given[i] \o <<DefaultPort>>

====
